---- MODULE Spec2Model ----
(***************************************************************************)
(* BoundingBoxDivider.processAlgorithm (QGIS/subset-polygon.py): a bounding *)
(* box is divided into a grid of square (in degrees) cells.                 *)
(*                                                                          *)
(* The coordinates are Python floats.  They are modelled as IEEE-754        *)
(* binary64 values: a sign, a 53-bit significand and an exponent, every     *)
(* arithmetic operation rounded to nearest, ties to even.  The significand  *)
(* does not fit TLC's integers, so it is kept as a little-endian sequence   *)
(* of 15-bit limbs.  Subnormals, infinities and NaN are outside the range   *)
(* of the inputs enumerated here; the sign of zero is never observed by the *)
(* algorithm and zero is kept in one form.                                  *)
(***************************************************************************)
EXTENDS Integers, Sequences, FiniteSets, TLC

-----------------------------------------------------------------------------
(* Arbitrary-size naturals: little-endian limbs, no leading zero limb.      *)

LimbBits == 15
Base == 32768

RECURSIVE Pow2(_)
Pow2(n) == IF n = 0 THEN 1 ELSE 2 * Pow2(n - 1)

RECURSIVE BigNorm(_)
BigNorm(a) ==
    IF a = <<>> THEN <<>>
    ELSE IF a[Len(a)] = 0 THEN BigNorm(SubSeq(a, 1, Len(a) - 1))
    ELSE a

RECURSIVE BigFromNat(_)
BigFromNat(n) ==
    IF n = 0 THEN <<>> ELSE <<n % Base>> \o BigFromNat(n \div Base)

RECURSIVE BigToNat(_)
BigToNat(a) ==
    IF a = <<>> THEN 0 ELSE a[1] + Base * BigToNat(Tail(a))

RECURSIVE BigCmpFrom(_, _, _)
BigCmpFrom(a, b, i) ==
    IF i = 0 THEN 0
    ELSE IF a[i] < b[i] THEN -1
    ELSE IF a[i] > b[i] THEN 1
    ELSE BigCmpFrom(a, b, i - 1)

BigCmp(a, b) ==
    IF Len(a) < Len(b) THEN -1
    ELSE IF Len(a) > Len(b) THEN 1
    ELSE BigCmpFrom(a, b, Len(a))

RECURSIVE BigAddC(_, _, _)
BigAddC(a, b, carry) ==
    IF a = <<>> /\ b = <<>> THEN (IF carry = 0 THEN <<>> ELSE <<carry>>)
    ELSE LET x == IF a = <<>> THEN 0 ELSE a[1]
             y == IF b = <<>> THEN 0 ELSE b[1]
             s == x + y + carry
         IN  <<s % Base>> \o BigAddC(IF a = <<>> THEN <<>> ELSE Tail(a),
                                     IF b = <<>> THEN <<>> ELSE Tail(b),
                                     s \div Base)

BigAdd(a, b) == BigAddC(a, b, 0)

RECURSIVE BigSubB(_, _, _)
BigSubB(a, b, borrow) ==
    IF a = <<>> THEN <<>>
    ELSE LET y == IF b = <<>> THEN 0 ELSE b[1]
             d == a[1] - y - borrow
         IN  <<IF d < 0 THEN d + Base ELSE d>>
                \o BigSubB(Tail(a), IF b = <<>> THEN <<>> ELSE Tail(b),
                           IF d < 0 THEN 1 ELSE 0)

\* a - b, for a >= b
BigSub(a, b) == BigNorm(BigSubB(a, b, 0))

RECURSIVE BigMulC(_, _, _)
BigMulC(a, k, carry) ==
    IF a = <<>> THEN BigFromNat(carry)
    ELSE LET p == a[1] * k + carry
         IN  <<p % Base>> \o BigMulC(Tail(a), k, p \div Base)

\* a * k, for 0 <= k < Base
BigMulSmall(a, k) == IF k = 0 THEN <<>> ELSE BigMulC(a, k, 0)

RECURSIVE BigDivR(_, _, _)
BigDivR(a, k, i) ==
    \* quotient limbs i..1 of a \div k and the remainder, top limb first
    IF i > Len(a) THEN [q |-> <<>>, r |-> 0]
    ELSE LET hi  == BigDivR(a, k, i + 1)
             cur == hi.r * Base + a[i]
         IN  [q |-> <<cur \div k>> \o hi.q, r |-> cur % k]

\* a \div k, for 0 < k <= Base
BigDivSmall(a, k) == BigNorm(BigDivR(a, k, 1).q)

RECURSIVE Zeros(_)
Zeros(n) == IF n = 0 THEN <<>> ELSE <<0>> \o Zeros(n - 1)

\* a * 2^n
BigShl(a, n) ==
    IF a = <<>> THEN <<>>
    ELSE Zeros(n \div LimbBits) \o BigMulSmall(a, Pow2(n % LimbBits))

\* a \div 2^n
BigShr(a, n) ==
    IF n \div LimbBits >= Len(a) THEN <<>>
    ELSE BigDivSmall(SubSeq(a, n \div LimbBits + 1, Len(a)), Pow2(n % LimbBits))

RECURSIVE BitLen(_)
BitLen(n) == IF n = 0 THEN 0 ELSE 1 + BitLen(n \div 2)

BigBitLen(a) ==
    IF a = <<>> THEN 0 ELSE LimbBits * (Len(a) - 1) + BitLen(a[Len(a)])

\* bit i of a, bit 0 the least significant
BigBit(a, i) ==
    IF i \div LimbBits >= Len(a) THEN 0
    ELSE (a[i \div LimbBits + 1] \div Pow2(i % LimbBits)) % 2

\* a % 2^n # 0
BigLowNonZero(a, n) ==
    \/ \E j \in 1..Len(a) : j <= n \div LimbBits /\ a[j] # 0
    \/ /\ n \div LimbBits < Len(a)
       /\ a[n \div LimbBits + 1] % Pow2(n % LimbBits) # 0

BigOdd(a) == a # <<>> /\ a[1] % 2 = 1

\* a \div 2^n rounded to nearest, ties to even
BigShrRNE(a, n) ==
    IF n = 0 THEN a
    ELSE LET q     == BigShr(a, n)
             guard == BigBit(a, n - 1) = 1
             stick == BigLowNonZero(a, n - 1)
         IN  IF guard /\ (stick \/ BigOdd(q)) THEN BigAdd(q, <<1>>) ELSE q

-----------------------------------------------------------------------------
(* binary64: [s, m, e] is s * m * 2^e with m of exactly 53 bits, or zero.   *)

Mantissa == 53

FZero == [s |-> 1, m |-> <<>>, e |-> 0]

\* the float nearest to s * M * 2^E (the rounding every float operation ends with)
FRound(s, M, E) ==
    LET L == BigBitLen(M)
    IN  IF L = 0 THEN FZero
        ELSE IF L <= Mantissa
             THEN [s |-> s, m |-> BigShl(M, Mantissa - L), e |-> E - (Mantissa - L)]
        ELSE LET q == BigShrRNE(M, L - Mantissa)
             IN  IF BigBitLen(q) > Mantissa
                 THEN [s |-> s, m |-> BigShr(q, 1), e |-> E + (L - Mantissa) + 1]
                 ELSE [s |-> s, m |-> q, e |-> E + (L - Mantissa)]

Abs(n) == IF n < 0 THEN -n ELSE n
Sign(n) == IF n < 0 THEN -1 ELSE 1

\* float(n)
FFromInt(n) == FRound(Sign(n), BigFromNat(Abs(n)), 0)

FIsZero(a) == a.m = <<>>

FNeg(a) == IF FIsZero(a) THEN a ELSE [a EXCEPT !.s = -a.s]

\* abs(a)
FAbs(a) == [a EXCEPT !.s = 1]

Min(x, y) == IF x < y THEN x ELSE y

\* comparison of the magnitudes: -1, 0, 1
FCmpMag(a, b) ==
    IF FIsZero(a) THEN (IF FIsZero(b) THEN 0 ELSE -1)
    ELSE IF FIsZero(b) THEN 1
    ELSE IF a.e < b.e THEN -1
    ELSE IF a.e > b.e THEN 1
    ELSE BigCmp(a.m, b.m)

\* a < b, a <= b
FLess(a, b) ==
    LET sa == IF FIsZero(a) THEN 0 ELSE a.s
        sb == IF FIsZero(b) THEN 0 ELSE b.s
    IN  IF sa # sb THEN sa < sb
        ELSE IF sa = 0 THEN FALSE
        ELSE IF sa = 1 THEN FCmpMag(a, b) = -1
        ELSE FCmpMag(a, b) = 1

FLeq(a, b) == ~FLess(b, a)

\* a + b
FAdd(a, b) ==
    IF FIsZero(a) THEN b
    ELSE IF FIsZero(b) THEN a
    ELSE LET e  == Min(a.e, b.e)
             Ma == BigShl(a.m, a.e - e)
             Mb == BigShl(b.m, b.e - e)
             c  == BigCmp(Ma, Mb)
         IN  IF a.s = b.s THEN FRound(a.s, BigAdd(Ma, Mb), e)
             ELSE IF c = 0 THEN FZero
             ELSE IF c = 1 THEN FRound(a.s, BigSub(Ma, Mb), e)
             ELSE FRound(b.s, BigSub(Mb, Ma), e)

\* a - b
FSub(a, b) == FAdd(a, FNeg(b))

\* k * a for a Python int k of small magnitude (float(k) is exact)
FMulInt(k, a) == FRound(Sign(k) * a.s, BigMulSmall(a.m, Abs(k)), a.e)

\* a / 2
FHalf(a) == IF FIsZero(a) THEN a ELSE [a EXCEPT !.e = a.e - 1]

DivBits == 56

RECURSIVE LongDiv(_, _, _, _)
LongDiv(rem, d, q, n) ==
    \* n more quotient bits of rem / d, rem < d; the last bit is the sticky bit
    \* (Len(q2) >= 0 only has q2 evaluated at every step)
    IF n = 0 THEN BigAdd(BigMulSmall(q, 2), IF rem = <<>> THEN <<>> ELSE <<1>>)
    ELSE LET r2 == BigMulSmall(rem, 2)
             q2 == BigMulSmall(q, 2)
         IN  IF Len(q2) >= 0 /\ BigCmp(r2, d) >= 0
             THEN LongDiv(BigSub(r2, d), d, BigAdd(q2, <<1>>), n - 1)
             ELSE LongDiv(r2, d, q2, n - 1)

\* a / b for b # 0
FDiv(a, b) ==
    IF FIsZero(a) THEN FZero
    ELSE LET first == BigCmp(a.m, b.m) >= 0
             rem0  == IF first THEN BigSub(a.m, b.m) ELSE a.m
             q0    == IF first THEN <<1>> ELSE <<>>
         IN  FRound(a.s * b.s, LongDiv(rem0, b.m, q0, DivBits),
                    a.e - b.e - DivBits - 1)

\* math.ceil(a), a Python int
FCeil(a) ==
    IF FIsZero(a) THEN 0
    ELSE IF a.e >= 0 THEN a.s * BigToNat(BigShl(a.m, a.e))
    ELSE LET q    == BigToNat(BigShr(a.m, -a.e))
             frac == BigLowNonZero(a.m, -a.e)
         IN  IF a.s = 1 THEN (IF frac THEN q + 1 ELSE q) ELSE -q

\* round(a, 6), as the number of millionths it denotes
Round6(a) ==
    IF FIsZero(a) THEN 0
    ELSE LET N == BigMulSmall(BigMulSmall(a.m, 1000), 1000)
         IN  IF a.e >= 0 THEN a.s * BigToNat(BigShl(N, a.e))
             ELSE a.s * BigToNat(BigShrRNE(N, -a.e))

-----------------------------------------------------------------------------
(* Bounds of the inputs that are enumerated.                                *)

MaxFeatures == 2
MaxWidth == 2
MaxHeight == 1
MaxNegColumns == 1
MaxColumns == 3
West == 1
South == 1

\* bounding boxes as QgsGeometry.boundingBox() returns them: xMin <= xMax,
\* yMin <= yMax; a box of zero width or height is a degenerate one.  The
\* south-west corner is at longitude West, latitude -South.
BBoxes ==
    {[xMin |-> West, yMin |-> -South, xMax |-> West + w, yMax |-> h - South] :
        w \in {0, MaxWidth}, h \in {0, MaxHeight}}

RECURSIVE SeqsUpTo(_, _)
SeqsUpTo(S, n) ==
    IF n = 0 THEN {<<>>}
    ELSE LET shorter == SeqsUpTo(S, n - 1)
         IN  shorter \cup {Append(q, x) : q \in {t \in shorter : Len(t) = n - 1}, x \in S}

-----------------------------------------------------------------------------
(* processAlgorithm                                                         *)

VARIABLES
    sourceValid,    \* parameterAsSource returned a source (not None)
    sinkValid,      \* parameterAsSink will return a sink (not None)
    features,       \* the bounding boxes of source.getFeatures(), in order
    num_columns,    \* parameterAsInt(COLUMNS)
    pc,             \* position in processAlgorithm
    error,          \* the exception that ended the run
    sinkCreated,    \* the output sink has been created
    cells,          \* the features added to the sink, in order
    fi,             \* number of input features taken from the iterator
    x_min, y_min, width_degrees, height_degrees,
    num_rows, cell_id, total, current, row, col,
    canceled,       \* feedback.isCanceled()
    progress,       \* the last value given to feedback.setProgress
    cancelAt        \* where the run was when the caller cancelled

vars == <<sourceValid, sinkValid, features, num_columns, pc, error, sinkCreated,
          cells, fi, x_min, y_min, width_degrees, height_degrees, num_rows,
          cell_id, total, current, row, col, canceled, progress, cancelAt>>

inputs == <<sourceValid, sinkValid, features, num_columns>>
locals == <<x_min, y_min, width_degrees, height_degrees, num_rows, cell_id, total, current>>

NoError == [kind |-> "none", line |-> 0]
NotCanceled == [len |-> 0, pc |-> "none", fi |-> 0, row |-> 0, col |-> 0]

Init ==
    /\ sourceValid \in BOOLEAN
    /\ sinkValid \in BOOLEAN
    /\ features \in SeqsUpTo(BBoxes, MaxFeatures)
    /\ sourceValid = FALSE => features = <<>>
    /\ num_columns \in (-MaxNegColumns)..MaxColumns
    /\ pc = "start"
    /\ error = NoError
    /\ sinkCreated = FALSE
    /\ cells = <<>>
    /\ fi = 0
    /\ x_min = FZero /\ y_min = FZero
    /\ width_degrees = FZero /\ height_degrees = FZero
    /\ num_rows = 0 /\ cell_id = 0 /\ total = 0 /\ current = 0
    /\ row = 0 /\ col = 0
    /\ canceled = FALSE
    /\ progress = FZero
    /\ cancelAt = NotCanceled

\* raise: the run ends with the exception
Raise(kind, line) ==
    /\ pc' = "error"
    /\ error' = [kind |-> kind, line |-> line]

\* lines 86-112.  QgsProcessingException is not among the names the module
\* imports, so each raise statement ends in a NameError.
Start ==
    /\ pc = "start"
    /\ IF ~sourceValid THEN
            /\ Raise("NameError", 90)
            /\ UNCHANGED sinkCreated
       ELSE IF ~sinkValid THEN
            /\ Raise("NameError", 112)
            /\ UNCHANGED sinkCreated
       ELSE /\ sinkCreated' = TRUE
            /\ pc' = "featLoop"
            /\ UNCHANGED error
    /\ UNCHANGED <<inputs, cells, fi, locals, row, col, canceled, progress, cancelAt>>

\* line 124, for num_columns # 0
WidthDegrees(bbox, columns) ==
    FDiv(FSub(FFromInt(bbox.xMax), FFromInt(bbox.xMin)), FFromInt(columns))

\* line 139
HeightDegrees(w) == FAbs(w)

\* lines 142-143, for h # 0
NumRows(bbox, h) ==
    FCeil(FDiv(FSub(FFromInt(bbox.yMax), FFromInt(bbox.yMin)), h))

\* line 146
FirstCellId == 1

\* lines 115-148: the next input feature, its bounding box and grid size.
\* width_meters (line 136) is measured and never read, and is left out.
NextFeature ==
    /\ pc = "featLoop"
    /\ fi < Len(features)
    /\ LET bbox == features[fi + 1]
           w    == WidthDegrees(bbox, num_columns)
           h    == HeightDegrees(w)
           rows == NumRows(bbox, h)
       IN  IF num_columns = 0 THEN
                /\ Raise("ZeroDivisionError", 124)
                /\ UNCHANGED <<fi, locals, row>>
           ELSE IF FIsZero(h) THEN
                /\ Raise("ZeroDivisionError", 143)
                /\ UNCHANGED <<fi, locals, row>>
           ELSE /\ fi' = fi + 1
                /\ x_min' = FFromInt(bbox.xMin)
                /\ y_min' = FFromInt(bbox.yMin)
                /\ width_degrees' = w
                /\ height_degrees' = h
                /\ num_rows' = rows
                /\ cell_id' = FirstCellId
                /\ total' = rows * num_columns
                /\ current' = 0
                /\ row' = 0
                /\ pc' = "rowLoop"
                /\ UNCHANGED error
    /\ UNCHANGED <<inputs, sinkCreated, cells, col, canceled, progress, cancelAt>>

\* line 204: the iterator is exhausted
Return ==
    /\ pc = "featLoop"
    /\ fi = Len(features)
    /\ pc' = "done"
    /\ UNCHANGED <<inputs, error, sinkCreated, cells, fi, locals, row, col,
                   canceled, progress, cancelAt>>

\* the cancellation check left out
NeverBreak(c) == FALSE

\* line 151: the cancellation check, made at the head of a row only
BreakOnCancel(c) == c

\* cancellation reported as an exception instead of leaving the loop
BreakRowRaises == Raise("QgsProcessingException", 152)

\* line 152: break leaves the row loop; the feature loop goes on
BreakRow ==
    /\ pc' = "featLoop"
    /\ UNCHANGED error

\* lines 150-154: the head of the row loop
RowLoop ==
    /\ pc = "rowLoop"
    /\ IF row >= num_rows THEN
            /\ pc' = "featLoop"
            /\ UNCHANGED <<col, error>>
       ELSE IF BreakOnCancel(canceled) THEN
            /\ BreakRow
            /\ UNCHANGED col
       ELSE /\ col' = 0
            /\ pc' = "colLoop"
            /\ UNCHANGED error
    /\ UNCHANGED <<inputs, sinkCreated, cells, fi, locals, row,
                   canceled, progress, cancelAt>>

Digit == <<"0", "1", "2", "3", "4", "5", "6", "7", "8", "9">>

RECURSIVE Digits(_)
Digits(n) ==
    IF n < 10 THEN <<Digit[n + 1]>> ELSE Append(Digits(n \div 10), Digit[(n % 10) + 1])

\* f"{n:02d}"
Pad2(n) == IF n < 10 THEN <<"0">> \o Digits(n) ELSE Digits(n)

\* line 169
CellName(r, c) == <<"R">> \o Pad2(r + 1) \o <<"C">> \o Pad2(c + 1)

\* the column written zero-based
ColAttrZeroBased(c) == c

\* line 185
ColAttr(c) == c + 1

\* the counter never advanced
NextCellIdStuck(id) == id

\* the counter advanced by two
NextCellIdSkips(id) == id + 2

\* line 199
NextCellId(id) == id + 1

\* lines 156-190: the cell of row r, column c.  The fields taken over from the
\* source get no value (attrs.get gives None for them) and are not recorded.
Cell(id, r, c, xmin, ymin, w, h) ==
    LET cell_x_min == FAdd(xmin, FMulInt(c, w))
        cell_x_max == FAdd(cell_x_min, w)
        cell_y_min == FAdd(ymin, FMulInt(r, h))
        cell_y_max == FAdd(cell_y_min, h)
        center_x   == FHalf(FAdd(cell_x_min, cell_x_max))
        center_y   == FHalf(FAdd(cell_y_min, cell_y_max))
        buffer     == FHalf(w)
    IN  [cell_id    |-> id,
         cell_name  |-> CellName(r, c),
         row        |-> r + 1,
         col        |-> ColAttr(c),
         center_lat |-> Round6(center_y),
         center_lon |-> Round6(center_x),
         buffer     |-> Round6(buffer),
         notes      |-> "",
         rect       |-> [xMin |-> cell_x_min, yMin |-> cell_y_min,
                         xMax |-> cell_x_max, yMax |-> cell_y_max]]

\* lines 154-201: one iteration of the column loop
EmitCell ==
    /\ pc = "colLoop"
    /\ col < num_columns
    /\ cells' = Append(cells, Cell(cell_id, row, col, x_min, y_min,
                                   width_degrees, height_degrees))
    /\ cell_id' = NextCellId(cell_id)
    /\ current' = current + 1
    /\ progress' = FDiv(FFromInt(100 * (current + 1)), FFromInt(total))
    /\ col' = col + 1
    /\ UNCHANGED <<inputs, pc, error, sinkCreated, fi, x_min, y_min, width_degrees,
                   height_degrees, num_rows, total, row, canceled, cancelAt>>

\* line 154: the columns of the row are exhausted
EndRow ==
    /\ pc = "colLoop"
    /\ col >= num_columns
    /\ row' = row + 1
    /\ pc' = "rowLoop"
    /\ UNCHANGED <<inputs, error, sinkCreated, cells, fi, locals, col,
                   canceled, progress, cancelAt>>

\* the caller cancels (QgsFeedback.cancel(): the flag is never cleared)
Cancel ==
    /\ pc \notin {"done", "error"}
    /\ ~canceled
    /\ canceled' = TRUE
    /\ cancelAt' = [len |-> Len(cells), pc |-> pc, fi |-> fi, row |-> row, col |-> col]
    /\ UNCHANGED <<inputs, pc, error, sinkCreated, cells, fi, locals, row, col, progress>>

Next ==
    \/ Start
    \/ NextFeature
    \/ Return
    \/ RowLoop
    \/ EmitCell
    \/ EndRow
    \/ Cancel

Spec == Init /\ [][Next]_vars

-----------------------------------------------------------------------------
(* The properties.                                                          *)

Terminated == pc \in {"done", "error"}

\* xMax > xMin and yMax > yMin
ValidBox(b) == b.xMax > b.xMin /\ b.yMax > b.yMin

\* a source and a sink, numColumns >= 1 and only valid boxes
ValidRequest ==
    /\ sourceValid /\ sinkValid
    /\ num_columns >= 1
    /\ \A i \in 1..Len(features) : ValidBox(features[i])

\* a valid request on one bounding box, run to the end without cancellation
CompletedOne ==
    /\ ValidRequest
    /\ Len(features) = 1
    /\ pc = "done"
    /\ ~canceled

\* C1: a valid request on one bounding box, run to completion without
\* cancellation, emits cells whose cell_id values are exactly
\* 1..numRows*numColumns, increasing by one in emission order, and the
\* emission is row-major.
C1_IdsRowMajor ==
    CompletedOne =>
        /\ Len(cells) = num_rows * num_columns
        /\ \A i \in 1..Len(cells) :
                /\ cells[i].cell_id = i
                /\ cells[i].row = ((i - 1) \div num_columns) + 1
                /\ cells[i].col = ((i - 1) % num_columns) + 1

C1_Witness ==
    /\ CompletedOne
    /\ num_rows >= 2 /\ num_columns >= 2
    /\ Len(cells) = num_rows * num_columns

\* the cells of a grid tile the box: the outer edges reach the edges of the
\* box and neighbouring cells leave no strip between them
Covers(cs, b) ==
    /\ cs # <<>>
    /\ \E i \in 1..Len(cs) : FLeq(cs[i].rect.xMin, FFromInt(b.xMin))
    /\ \E i \in 1..Len(cs) : FLeq(FFromInt(b.xMax), cs[i].rect.xMax)
    /\ \E i \in 1..Len(cs) : FLeq(cs[i].rect.yMin, FFromInt(b.yMin))
    /\ \E i \in 1..Len(cs) : FLeq(FFromInt(b.yMax), cs[i].rect.yMax)
    /\ \A i, j \in 1..Len(cs) :
          /\ (cs[i].row = cs[j].row /\ cs[j].col = cs[i].col + 1)
                => FLeq(cs[j].rect.xMin, cs[i].rect.xMax)
          /\ (cs[i].col = cs[j].col /\ cs[j].row = cs[i].row + 1)
                => FLeq(cs[j].rect.yMin, cs[i].rect.yMax)

\* C2: for a valid request run to completion the union of the emitted cell
\* bounds contains the input bounding box.
C2_Coverage == CompletedOne => Covers(cells, features[1])

\* C3: for a valid request run to completion every cell has col in
\* 1..numColumns and row in 1..numRows, and every (row, col) pair of the grid
\* is emitted exactly once.
C3_CompleteGrid ==
    CompletedOne =>
        /\ \A i \in 1..Len(cells) :
                cells[i].row \in 1..num_rows /\ cells[i].col \in 1..num_columns
        /\ \A r \in 1..num_rows, c \in 1..num_columns :
                Cardinality({i \in 1..Len(cells) :
                                cells[i].row = r /\ cells[i].col = c}) = 1

C3_Witness ==
    /\ CompletedOne
    /\ num_rows >= 2 /\ num_columns >= 3
    /\ \E i \in 1..Len(cells) : cells[i].row = num_rows /\ cells[i].col = num_columns

\* a request whose only fault is the one the claim is about
GoodSourceAndSink == sourceValid /\ sinkValid

\* C4: with numColumns zero or negative the run ends in an InvalidArgument
\* error and produces no cell; it neither ends normally nor in another error.
C4_ColumnsRejected ==
    (/\ GoodSourceAndSink
     /\ features # <<>> /\ \A i \in 1..Len(features) : ValidBox(features[i])
     /\ num_columns < 1
     /\ Terminated)
        => (pc = "error" /\ error.kind = "InvalidArgument" /\ cells = <<>>)

\* C5: with a degenerate bounding box (xMax <= xMin or yMax <= yMin) the run
\* fails with InvalidArgument before any cell is computed.
C5_DegenerateRejected ==
    (/\ GoodSourceAndSink
     /\ num_columns >= 1
     /\ \E i \in 1..Len(features) : ~ValidBox(features[i])
     /\ Terminated)
        => (pc = "error" /\ error.kind = "InvalidArgument" /\ cells = <<>>)

\* C6: a readable source that yields no feature makes the run fail with
\* InvalidSource (the raise of line 90); it does not end normally.
C6_EmptySourceRejected ==
    (/\ GoodSourceAndSink
     /\ num_columns >= 1
     /\ features = <<>>
     /\ Terminated)
        => (pc = "error" /\ error.line = 90)

\* C7: a run that ends in an error has not created the output sink and has
\* written no cell.
C7_AllOrNothing ==
    pc = "error" => (~sinkCreated /\ cells = <<>>)

RECURSIVE GridCells(_, _, _, _)
\* the cells of the grid of box b from the k-th on, in row-major order
GridCells(b, columns, rows, k) ==
    IF k > rows * columns THEN <<>>
    ELSE LET w == WidthDegrees(b, columns)
         IN  <<Cell(k, (k - 1) \div columns, (k - 1) % columns,
                    FFromInt(b.xMin), FFromInt(b.yMin), w, HeightDegrees(w))>>
             \o GridCells(b, columns, rows, k + 1)

RECURSIVE FullRun(_, _)
\* what a run that is never cancelled emits for the boxes fs
FullRun(fs, columns) ==
    IF fs = <<>> THEN <<>>
    ELSE LET h == HeightDegrees(WidthDegrees(Head(fs), columns))
         IN  GridCells(Head(fs), columns, NumRows(Head(fs), h), 1)
             \o FullRun(Tail(fs), columns)

IsPrefix(p, q) == Len(p) <= Len(q) /\ p = SubSeq(q, 1, Len(p))

\* C8: a valid request whose run is cancelled at any point ends normally, and
\* what it emitted is a prefix of what the uncancelled run emits.
C8_CancelTruncates ==
    (ValidRequest /\ canceled) =>
        /\ pc # "error"
        /\ pc = "done" => IsPrefix(cells, FullRun(features, num_columns))

C8_Witness ==
    /\ ValidRequest /\ canceled /\ pc = "done"
    /\ cells # <<>>
    /\ Len(cells) < Len(FullRun(features, num_columns))

\* C9 as stated: once the cancellation check is true no further cell is
\* emitted, wherever the run stands.
C9_NoCellAfterCancel == [][canceled => cells' = cells]_vars

\* C9 amended: once the cancellation check is true, the only cells still
\* emitted are the remaining columns of the row that was being emitted; no
\* cell of a later row or of a later input feature follows.
C9_OnlyRowInProgress ==
    canceled =>
        \A i \in (cancelAt.len + 1)..Len(cells) :
            /\ cancelAt.pc = "colLoop"
            /\ cells[i].row = cancelAt.row + 1
            /\ cells[i].col = cancelAt.col + (i - cancelAt.len)
            /\ cells[i].col <= num_columns

C9_Witness ==
    /\ canceled /\ pc = "done" /\ ValidRequest
    /\ Len(cells) > cancelAt.len
    /\ Len(cells) < Len(FullRun(features, num_columns))

\* C10 as stated: no two cells written in one invocation have the same
\* cell_id, for a source of any number of features.
C10_IdsUnique ==
    \A i, j \in 1..Len(cells) : i # j => cells[i].cell_id # cells[j].cell_id

\* C10 amended: the cell_id values are unique among the cells of one input
\* feature: the cells form one run 1, 2, 3, ... per input feature, the counter
\* starting again at 1 with each feature.
C10_IdsUniquePerFeature ==
    /\ \A i \in 1..Len(cells) :
          \/ cells[i].cell_id = 1
          \/ i > 1 /\ cells[i].cell_id = cells[i - 1].cell_id + 1
    /\ Cardinality({i \in 1..Len(cells) : cells[i].cell_id = 1}) <= fi

C10_Witness ==
    /\ pc = "done" /\ fi = 2
    /\ \E i, j \in 1..Len(cells) :
          i < j /\ cells[i].cell_id = cells[j].cell_id /\ cells[i].cell_id >= 2

====
